---------------------------- MODULE Spec2Model ----------------------------
(***************************************************************************)
(* The CreateFlashcards deck editor (React component): its four pieces of  *)
(* hook state, its event handlers, and the asynchronous continuations of   *)
(* handleDeleteCard and handleSubmit, which run after an await with the    *)
(* values their closure captured when the handler was invoked.             *)
(*                                                                         *)
(* Card objects have identity: handleChangeFront/handleChangeBack copy the *)
(* array but assign into the card object itself, so every array that holds *)
(* the object (the state, a pending handler's closure) sees the new text.  *)
(* The model keeps the objects in `heap` and the arrays as sequences of    *)
(* object references.                                                      *)
(*                                                                         *)
(* One step is one handler invocation, or the resumption of a suspended    *)
(* handler by the response to its request; the state updates a handler     *)
(* makes in one run are applied together (createRoot in main.jsx batches   *)
(* them).  Init is the state after the initialization effect has run for   *)
(* the editDeck the component was mounted with.                            *)
(***************************************************************************)
EXTENDS Integers, Sequences, FiniteSets, TLC

\* ---------------------------------------------------------------- bounds
MaxCards == 2        \* AddCard is offered while the list is shorter than this
MaxDeckCards == 2    \* longest card list of a supplied editDeck
MaxPending == 1      \* handlers suspended at an await at once
MaxRacing == 2       \* the same, in the specification of the overlapping handlers

\* ---------------------------------------------------------------- values
\* Strings are sequences of characters; " " is whitespace, "Q" is not.
Texts == { <<>>, <<" ">>, <<"Q">> }

\* A card object without an _id property (lines 20, 40, 75, 99, 208).
NoId == "undefined"
\* The _id values of the cards of a supplied deck.
CardId(i) == ToString(i)
CardIds == { CardId(i) : i \in 1..MaxDeckCards }
NoDeck == [_id |-> "undefined", deck_id |-> "undefined"]
\* The fields of the editDeck prop that are read after initialization.
DeckKeys == { [_id |-> "oidA", deck_id |-> "deckA"] }
\* deck_id values the backend may assign in its deck-create response.
NewDeckIds == { "deckM", "deckN" }

BlankCard == [_id |-> NoId, front |-> <<>>, back |-> <<>>]

\* String.prototype.trim: drop leading and trailing whitespace.
RECURSIVE trimStart(_)
trimStart(s) ==
    IF s = <<>> THEN s
    ELSE IF Head(s) = " " THEN trimStart(Tail(s)) ELSE s

RECURSIVE trimEnd(_)
trimEnd(s) ==
    IF s = <<>> THEN s
    ELSE IF s[Len(s)] = " " THEN trimEnd(SubSeq(s, 1, Len(s) - 1)) ELSE s

trim(s) == trimEnd(trimStart(s))

\* JavaScript truthiness of a string.
Truthy(s) == s # <<>>

Range(s) == { s[i] : i \in 1..Len(s) }

Max(a, b) == IF a >= b THEN a ELSE b


\* Enough object references for the state and every pending closure.
NumObjs == Max(MaxCards, MaxDeckCards) * (1 + Max(MaxPending, MaxRacing)) + 1
Oids == 1..NumObjs

Statuses == { "inflight", "ok", "notok", "rejected" }

\* ----------------------------------------------------------------- state
VARIABLES
    editDeck,          \* prop: key of the deck being edited, NoDeck in create mode
    deckTitle,         \* useState('')
    flashcardsData,    \* useState([{front:'',back:''}]): array of card objects
    heap,              \* the card objects: _id, front, back
    currentCardIndex,  \* useState(0), 0-based as in the source
    isFlipped,         \* useState(false)
    deletes,           \* handleDeleteCard invocations awaiting their fetch
    saves,             \* handleSubmit invocations that passed validation
    deleted,           \* the ids the server has deleted that a card object still has
    lastOp,            \* the handler or continuation that ran last, and its input
    sent,              \* the requests that step handed to fetch
    alert,             \* the message that step passed to alert(), "" if none
    onSubmit           \* the calls of the onSubmit prop that step made

editor == <<deckTitle, flashcardsData, heap, currentCardIndex, isFlipped>>
vars == <<editDeck, deckTitle, flashcardsData, heap, currentCardIndex, isFlipped,
          deletes, saves, deleted, lastOp, sent, alert, onSubmit>>

\* lastOp: the handler that ran (op); for a handler resumed by a response the
\* outcome of the request (arg), the position of its save in saves or of its
\* delete in deletes (sid) and the deck_id in the body of a deck-create response (data); for
\* handleDeleteCard the answer of window.confirm (arg).
Op(name, arg, sid) == [op |-> name, arg |-> arg, sid |-> sid, data |-> "-"]

\* The handlers suspended at an await.
Pending == Len(deletes) + Len(saves)

\* A step that sends nothing, alerts nothing and does not call onSubmit.
Quiet == sent' = <<>> /\ alert' = "" /\ onSubmit' = 0

\* const currentCard = flashcardsData[currentCardIndex]; the render reads
\* currentCard.front, which throws when the index is outside the array: the
\* component is torn down and none of its handlers runs again.
Mounted == currentCardIndex < Len(flashcardsData)

currentCard == heap[flashcardsData[currentCardIndex + 1]]

\* Objects some array can still reach.
Live(fd, dels, svs) ==
    Range(fd)
      \cup UNION { Range(dels[i].cards) : i \in 1..Len(dels) }
      \cup UNION { Range(svs[i].collected) : i \in 1..Len(svs) }

\* The ids of the objects some array can still reach.
Carried(fd, h, dels, svs) == { h[o]._id : o \in Live(fd, dels, svs) }

\* A reference no array holds: a new object.
NewObj(live) == CHOOSE o \in Oids \ live : \A p \in Oids \ live : o <= p

\* References are names only: the objects are renumbered in the order in
\* which the arrays reach them (the state's array first), and objects no
\* array reaches are forgotten.
RECURSIVE Reached(_, _, _)
Reached(fd, dels, svs) ==
    IF svs # <<>>
    THEN Reached(fd, dels, SubSeq(svs, 1, Len(svs) - 1)) \o svs[Len(svs)].collected
    ELSE IF dels # <<>>
    THEN Reached(fd, SubSeq(dels, 1, Len(dels) - 1), svs) \o dels[Len(dels)].cards
    ELSE fd

\* refs without the repetitions: every reference at its first place.
FirstOf(refs) ==
    LET firsts == SelectSeq([i \in 1..Len(refs) |-> i],
                            LAMBDA i : \A j \in 1..(i - 1) : refs[j] # refs[i])
    IN [k \in 1..Len(firsts) |-> refs[firsts[k]]]

Renumbered(fd, h, dels, svs) ==
    LET order    == FirstOf(Reached(fd, dels, svs))
        name(o)  == CHOOSE n \in 1..Len(order) : order[n] = o
        arr(refs) == [i \in 1..Len(refs) |-> name(refs[i])]
    IN
    [flashcardsData |-> arr(fd),
     heap    |-> [n \in Oids |-> IF n <= Len(order) THEN h[order[n]] ELSE BlankCard],
     deletes |-> [i \in 1..Len(dels) |-> [dels[i] EXCEPT !.cards = arr(@)]],
     saves   |-> [i \in 1..Len(svs) |-> [svs[i] EXCEPT !.collected = arr(@)]]]

\* The arrays and objects of the next state.
Arrays(fd, h, dels, svs) ==
    LET r == Renumbered(fd, h, dels, svs) IN
    /\ flashcardsData' = r.flashcardsData
    /\ heap' = r.heap
    /\ deletes' = r.deletes
    /\ saves' = r.saves

\* ------------------------------------------------------- initialization
\* The decks a parent can supply: the i-th card has _id i, and any texts.
SeedCards ==
    UNION { { cs \in [1..n -> [_id : CardIds, front : Texts, back : Texts]] :
                \A i \in 1..n : cs[i]._id = CardId(i) } : n \in 0..MaxDeckCards }

EditDecks ==
    { [key |-> k, title |-> t, cards |-> cs] :
        k \in DeckKeys, t \in Texts, cs \in SeedCards }

EmptyHeap == [o \in Oids |-> BlankCard]

\* useEffect(..., [editDeck]), edit branch (lines 27-37): every card of the
\* deck is copied into a new object.
useEffectEdit ==
    \E d \in EditDecks :
        /\ editDeck = d.key
        /\ deckTitle = d.title
        /\ flashcardsData = [i \in 1..Len(d.cards) |-> i]
        /\ heap = [o \in Oids |-> IF o <= Len(d.cards) THEN d.cards[o] ELSE BlankCard]

\* useEffect, create branch (lines 38-43).
useEffectCreate ==
    /\ editDeck = NoDeck
    /\ deckTitle = <<>>
    /\ flashcardsData = <<1>>
    /\ heap = EmptyHeap

Init ==
    /\ (useEffectEdit \/ useEffectCreate)
    /\ currentCardIndex = 0
    /\ isFlipped = FALSE
    /\ deletes = <<>>
    /\ saves = <<>>
    /\ deleted = {}
    /\ lastOp = Op("useEffect", "-", 0)
    /\ sent = <<>>
    /\ alert = ""
    /\ onSubmit = 0

\* ------------------------------------------------------------ navigation
\* handleFlip (line 49)
handleFlip ==
    /\ Mounted
    /\ isFlipped' = ~isFlipped
    /\ lastOp' = Op("handleFlip", "-", 0)
    /\ Quiet
    /\ UNCHANGED <<deleted, editDeck, deckTitle, flashcardsData, heap, currentCardIndex,
                   deletes, saves>>

\* The flip state is left as it is.
handlePrevKeepsFlip ==
    /\ Mounted
    /\ IF currentCardIndex > 0
       THEN /\ currentCardIndex' = currentCardIndex - 1
            /\ UNCHANGED isFlipped
       ELSE UNCHANGED <<currentCardIndex, isFlipped>>
    /\ lastOp' = Op("handlePrev", "-", 0)
    /\ Quiet
    /\ UNCHANGED <<deleted, editDeck, deckTitle, flashcardsData, heap, deletes, saves>>

\* handlePrev (lines 54-59)
handlePrev ==
    /\ Mounted
    /\ IF currentCardIndex > 0
       THEN /\ currentCardIndex' = currentCardIndex - 1
            /\ isFlipped' = FALSE
       ELSE UNCHANGED <<currentCardIndex, isFlipped>>
    /\ lastOp' = Op("handlePrev", "-", 0)
    /\ Quiet
    /\ UNCHANGED <<deleted, editDeck, deckTitle, flashcardsData, heap, deletes, saves>>

\* The index moves past the last card.
handleNextPastEnd ==
    /\ Mounted
    /\ IF currentCardIndex < Len(flashcardsData)
       THEN /\ currentCardIndex' = currentCardIndex + 1
            /\ isFlipped' = FALSE
       ELSE UNCHANGED <<currentCardIndex, isFlipped>>
    /\ lastOp' = Op("handleNext", "-", 0)
    /\ Quiet
    /\ UNCHANGED <<deleted, editDeck, deckTitle, flashcardsData, heap, deletes, saves>>

\* handleNext (lines 64-69)
handleNext ==
    /\ Mounted
    /\ IF currentCardIndex < Len(flashcardsData) - 1
       THEN /\ currentCardIndex' = currentCardIndex + 1
            /\ isFlipped' = FALSE
       ELSE UNCHANGED <<currentCardIndex, isFlipped>>
    /\ lastOp' = Op("handleNext", "-", 0)
    /\ Quiet
    /\ UNCHANGED <<deleted, editDeck, deckTitle, flashcardsData, heap, deletes, saves>>

\* The index is set to the last index of the list before the append.
handleAddFlashcardStaleIndex ==
    /\ Mounted
    /\ Len(flashcardsData) < MaxCards
    /\ LET o == NewObj(Live(flashcardsData, deletes, saves)) IN
       Arrays(Append(flashcardsData, o), [heap EXCEPT ![o] = BlankCard], deletes, saves)
    /\ currentCardIndex' = Len(flashcardsData) - 1
    /\ isFlipped' = FALSE
    /\ lastOp' = Op("handleAddFlashcard", "-", 0)
    /\ Quiet
    /\ UNCHANGED <<deleted, editDeck, deckTitle>>

\* handleAddFlashcard (lines 74-78)
handleAddFlashcard ==
    /\ Mounted
    /\ Len(flashcardsData) < MaxCards
    /\ LET o == NewObj(Live(flashcardsData, deletes, saves)) IN
       Arrays(Append(flashcardsData, o), [heap EXCEPT ![o] = BlankCard], deletes, saves)
    /\ currentCardIndex' = Len(flashcardsData)
    /\ isFlipped' = FALSE
    /\ lastOp' = Op("handleAddFlashcard", "-", 0)
    /\ Quiet
    /\ UNCHANGED <<deleted, editDeck, deckTitle>>

\* ---------------------------------------------------------------- edits
\* onChange of the title input (line 235)
setDeckTitle ==
    /\ Mounted
    /\ \E text \in Texts : deckTitle' = text
    /\ lastOp' = Op("setDeckTitle", "-", 0)
    /\ Quiet
    /\ UNCHANGED <<deleted, editDeck, flashcardsData, heap, currentCardIndex, isFlipped,
                   deletes, saves>>

\* handleChangeFront (lines 112-116): the array is copied, the card object is
\* assigned in place.
handleChangeFront ==
    /\ Mounted
    /\ \E text \in Texts :
         heap' = [heap EXCEPT ![flashcardsData[currentCardIndex + 1]].front = text]
    /\ lastOp' = Op("handleChangeFront", "-", 0)
    /\ Quiet
    /\ UNCHANGED <<deleted, editDeck, deckTitle, flashcardsData, currentCardIndex, isFlipped,
                   deletes, saves>>

\* handleChangeBack (lines 122-126)
handleChangeBack ==
    /\ Mounted
    /\ \E text \in Texts :
         heap' = [heap EXCEPT ![flashcardsData[currentCardIndex + 1]].back = text]
    /\ lastOp' = Op("handleChangeBack", "-", 0)
    /\ Quiet
    /\ UNCHANGED <<deleted, editDeck, deckTitle, flashcardsData, currentCardIndex, isFlipped,
                   deletes, saves>>

\* --------------------------------------------------------------- delete
\* The first element is removed, whatever the index.
spliceFirst(arr, i) == SubSeq(arr, 2, Len(arr))

\* updated.splice(i, 1) on a copy, i 0-based (lines 96-97).
splice(arr, i) == SubSeq(arr, 1, i) \o SubSeq(arr, i + 2, Len(arr))

\* fetch(`/api/card/${_id}`, {method: "DELETE"}) (lines 92-94)
deleteRequest(id) ==
    [api |-> "card", method |-> "DELETE", target |-> id, deck_id |-> "undefined",
     title |-> <<>>, front |-> <<>>, back |-> <<>>]

\* The answer of window.confirm is ignored.
shouldDeleteUnconfirmed(card, confirm) == card._id # NoId

\* if (!cardToDelete._id) return; ... if (!confirm) return; (lines 86-89)
shouldDelete(card, confirm) == card._id # NoId /\ confirm

\* handleDeleteCard up to its await (lines 83-94).  confirm is the answer
\* window.confirm returns; it is asked only for a card that has an _id.
\* The handler has no guard of its own against a request already in flight:
\* limit bounds the handlers the model lets be suspended at once.
handleDeleteCardWithin(limit) ==
    /\ Mounted
    /\ \E confirm \in BOOLEAN :
         /\ currentCard._id = NoId => ~confirm
         /\ lastOp' = Op("handleDeleteCard",
                         IF currentCard._id = NoId THEN "not asked"
                         ELSE IF confirm THEN "confirmed" ELSE "declined", 0)
         /\ IF shouldDelete(currentCard, confirm)
            THEN /\ Pending < limit
                 /\ deletes' = Append(deletes,
                                      [cards |-> flashcardsData,
                                       index |-> currentCardIndex,
                                       _id   |-> currentCard._id])
                 /\ sent' = <<deleteRequest(currentCard._id)>>
            ELSE /\ sent' = <<>>
                 /\ UNCHANGED deletes
    /\ alert' = ""
    /\ onSubmit' = 0
    /\ UNCHANGED <<deleted, editDeck, deckTitle, flashcardsData, heap, currentCardIndex,
                   isFlipped, saves>>

handleDeleteCard == handleDeleteCardWithin(MaxPending)

\* The fetch of delete d settles and handleDeleteCard resumes (lines 92-105).
\* fetch fulfils for every response, whatever its status, and the response
\* is not looked at; it rejects on a transport error only.
\* The closure's flashcardsData and currentCardIndex are those of the render
\* in which the handler was invoked.  An ok response tells that the server
\* deleted the card; the id is remembered while some object has it.
deleteSettled ==
    /\ Mounted
    /\ \E d \in 1..Len(deletes), outcome \in Statuses \ {"inflight"} :
         LET c    == deletes[d]
             rest == splice(deletes, d - 1)
         IN
         /\ lastOp' = Op("deleteSettled", outcome, d)
         /\ IF outcome = "rejected"
            THEN /\ Arrays(flashcardsData, heap, rest, saves)
                 /\ UNCHANGED <<currentCardIndex, isFlipped>>
            ELSE LET updated == splice(c.cards, c.index)
                     o       == NewObj(Live(<<>>, rest, saves))
                 IN
                 /\ IF Len(updated) > 0
                    THEN Arrays(updated, heap, rest, saves)
                    ELSE Arrays(<<o>>, [heap EXCEPT ![o] = BlankCard], rest, saves)
                 /\ currentCardIndex' = Max(0, c.index - 1)
                 /\ isFlipped' = FALSE
         /\ alert' = IF outcome = "rejected" THEN "Failed to delete flashcard." ELSE ""
         /\ deleted' = (IF outcome = "ok" THEN deleted \cup {c._id} ELSE deleted)
                          \cap Carried(flashcardsData', heap', deletes', saves')
    /\ sent' = <<>>
    /\ onSubmit' = 0
    /\ UNCHANGED <<editDeck, deckTitle>>

\* ----------------------------------------------------------------- save
\* Only the front is looked at.
isValidFrontOnly(card) == Truthy(trim(card.front))

\* card.front.trim() && card.back.trim() (line 133)
isValid(card) == Truthy(trim(card.front)) /\ Truthy(trim(card.back))

\* collectFlashcards (lines 132-134): filter keeps the card objects themselves.
RECURSIVE filterCards(_, _)
filterCards(arr, h) ==
    IF arr = <<>> THEN <<>>
    ELSE IF isValid(h[Head(arr)])
         THEN <<Head(arr)>> \o filterCards(Tail(arr), h)
         ELSE filterCards(Tail(arr), h)

collectFlashcards == filterCards(flashcardsData, heap)

\* The deck request of handleSubmit (lines 154-172): PUT /api/deck/<_id> when
\* editing, POST /api/deck otherwise; both carry deckTitle as typed.
deckRequest(deck, title) ==
    [api |-> "deck", method |-> IF deck # NoDeck THEN "PUT" ELSE "POST",
     target |-> deck._id, deck_id |-> "undefined",
     title |-> title, front |-> <<>>, back |-> <<>>]

\* The title check is skipped when the title is whitespace only.
hasTitleUntrimmed(title) == Truthy(title)

\* !deckTitle.trim() (line 140)
hasTitle(title) == Truthy(trim(title))

\* handleSubmit up to its first await (lines 139-172).  The handler has no
\* guard of its own against a save already in progress: limit bounds the
\* handlers the model lets be suspended at once.
handleSubmitWithin(limit) ==
    /\ Mounted
    /\ lastOp' = Op("handleSubmit", "-", 0)
    /\ IF ~hasTitle(deckTitle)
       THEN /\ alert' = "Deck title is required!"
            /\ sent' = <<>>
            /\ UNCHANGED saves
       ELSE LET collectedFlashcards == collectFlashcards IN
            IF Len(collectedFlashcards) = 0
            THEN /\ alert' = "At least one flashcard is required!"
                 /\ sent' = <<>>
                 /\ UNCHANGED saves
            ELSE /\ Pending < limit
                 /\ saves' = Append(saves,
                        [editDeck  |-> editDeck,
                         collected |-> collectedFlashcards,
                         cards     |-> <<>>,
                         phase     |-> "deck"])
                 /\ sent' = <<deckRequest(editDeck, deckTitle)>>
                 /\ alert' = ""
    /\ onSubmit' = 0
    /\ UNCHANGED <<deleted, editDeck, deckTitle, flashcardsData, heap, currentCardIndex,
                   isFlipped, deletes>>

handleSubmit == handleSubmitWithin(MaxPending)

\* Every card is created, whether it has an _id or not.
cardRequestAlwaysCreate(card, deckId) ==
    [api |-> "card", method |-> "POST", target |-> NoId,
     deck_id |-> deckId, title |-> <<>>,
     front |-> card.front, back |-> card.back]

\* The request one collected card is mapped to (lines 179-201); the body is
\* built from the card object as it is when the map runs.
cardRequest(card, deckId) ==
    IF card._id # NoId
    THEN [api |-> "card", method |-> "PUT", target |-> card._id,
          deck_id |-> "undefined", title |-> <<>>,
          front |-> card.front, back |-> card.back]
    ELSE [api |-> "card", method |-> "POST", target |-> NoId,
          deck_id |-> deckId, title |-> <<>>,
          front |-> card.front, back |-> card.back]

cardPromises(collected, h, deckId) ==
    [i \in 1..Len(collected) |-> cardRequest(h[collected[i]], deckId)]

\* editDeck._id, the id the deck request is addressed to, taken for deck_id.
deckIdOfAddress(deck, assigned) == IF deck # NoDeck THEN deck._id ELSE assigned

\* deckId as handleSubmit determines it (lines 162, 176).
deckIdOf(deck, assigned) == IF deck # NoDeck THEN deck.deck_id ELSE assigned

SaveFailed == "Error saving deck and flashcards. Please try again."
SaveSucceeded(deck) == IF deck # NoDeck THEN "Deck updated!" ELSE "Deck and flashcards saved!"

\* The status of the response is not looked at.
isOkUnchecked(outcome) == outcome # "rejected"

\* if (!res.ok) throw ... (lines 161, 174); a rejected fetch throws as well.
isOk(outcome) == outcome = "ok"

\* The deck request of save s settles and handleSubmit resumes (lines 155-203):
\* a response that is not ok throws, as a rejected fetch does, and the catch
\* ends the save; otherwise the card requests are issued together.  assigned
\* is data.deck.deck_id of the deck-create response.
deckSettled ==
    /\ Mounted
    /\ \E s \in 1..Len(saves), outcome \in Statuses \ {"inflight"} :
       \E assigned \in IF saves[s].editDeck = NoDeck /\ outcome = "ok"
                       THEN NewDeckIds ELSE {"-"} :
         LET c == saves[s] IN
         /\ c.phase = "deck"
         /\ lastOp' = [Op("deckSettled", outcome, s) EXCEPT !.data = assigned]
         /\ LET reqs == IF isOk(outcome)
                        THEN cardPromises(c.collected, heap,
                                          deckIdOf(c.editDeck, assigned))
                        ELSE <<>>
                svs  == IF isOk(outcome)
                        THEN [saves EXCEPT
                                ![s].cards = [i \in 1..Len(reqs) |-> "inflight"],
                                ![s].collected = <<>>,
                                ![s].phase = "cards"]
                        ELSE splice(saves, s - 1)
            IN
            /\ sent' = reqs
            /\ alert' = IF isOk(outcome) THEN "" ELSE SaveFailed
            /\ Arrays(flashcardsData, heap, deletes, svs)
    /\ onSubmit' = 0
    /\ UNCHANGED <<deleted, editDeck, deckTitle, currentCardIndex, isFlipped>>

\* Fulfilled only when every response is ok.
allFulfilledOk(cs) == \A i \in 1..Len(cs) : cs[i] = "ok"

\* Promise.all over the card requests (line 203): fulfilled when none is
\* pending and none rejected.
allFulfilled(cs) == \A i \in 1..Len(cs) : cs[i] \in {"ok", "notok"}

\* The reset without setCurrentCardIndex(0).
resetEditorKeepsIndex(svs) ==
    LET o == NewObj(Live(<<>>, deletes, svs)) IN
    /\ deckTitle' = <<>>
    /\ Arrays(<<o>>, [heap EXCEPT ![o] = BlankCard], deletes, svs)
    /\ isFlipped' = FALSE
    /\ UNCHANGED currentCardIndex

\* The reset after a successful save (lines 207-210); svs are the saves
\* still pending.
resetEditor(svs) ==
    LET o == NewObj(Live(<<>>, deletes, svs)) IN
    /\ deckTitle' = <<>>
    /\ Arrays(<<o>>, [heap EXCEPT ![o] = BlankCard], deletes, svs)
    /\ currentCardIndex' = 0
    /\ isFlipped' = FALSE

\* Card request k of save s settles (lines 203-215).  A rejection rejects
\* Promise.all and handleSubmit goes to its catch; a response of any status
\* fulfils the request, and when all are fulfilled handleSubmit resets the
\* editor and calls onSubmit.  Either way the save has ended; requests that
\* settle after that have no continuation.
cardSettled ==
    /\ Mounted
    /\ \E s \in 1..Len(saves) :
         \E k \in 1..Len(saves[s].cards), outcome \in Statuses \ {"inflight"} :
           LET c    == saves[s]
               cs   == [c.cards EXCEPT ![k] = outcome]
               rest == splice(saves, s - 1)
           IN
           /\ c.phase = "cards"
           /\ c.cards[k] = "inflight"
           /\ lastOp' = Op("cardSettled", outcome, s)
           /\ IF outcome = "rejected"
              THEN /\ saves' = rest
                   /\ alert' = SaveFailed
                   /\ onSubmit' = 0
                   /\ UNCHANGED <<editor, deletes>>
              ELSE IF allFulfilled(cs)
              THEN /\ alert' = SaveSucceeded(c.editDeck)
                   /\ resetEditor(rest)
                   /\ onSubmit' = 1
              ELSE /\ saves' = [saves EXCEPT ![s].cards = cs]
                   /\ alert' = ""
                   /\ onSubmit' = 0
                   /\ UNCHANGED <<editor, deletes>>
    /\ sent' = <<>>
    /\ UNCHANGED <<deleted, editDeck>>

\* ---------------------------------------------------------- specification
Next ==
    \/ handleFlip
    \/ handlePrev
    \/ handleNext
    \/ handleAddFlashcard
    \/ setDeckTitle
    \/ handleChangeFront
    \/ handleChangeBack
    \/ handleDeleteCard
    \/ deleteSettled
    \/ handleSubmit
    \/ deckSettled
    \/ cardSettled

Spec == Init /\ [][Next]_vars

\* What the editor shows: the title, the cards by value, the cursor, the flip.
Cards == [i \in 1..Len(flashcardsData) |-> heap[flashcardsData[i]]]
EditorView == <<deckTitle, Cards, currentCardIndex, isFlipped>>

TypeOK ==
    /\ editDeck \in DeckKeys \cup {NoDeck}
    /\ deckTitle \in Texts
    /\ flashcardsData \in Seq(Oids)
    /\ Len(flashcardsData) <= MaxCards
    /\ currentCardIndex \in 0..MaxCards
    /\ isFlipped \in BOOLEAN
    /\ deleted \subseteq CardIds
    /\ Pending <= MaxPending

\* ----------------------------------------------------------- termination
\* Every request of a save gets its response or fails: a handleSubmit that is
\* suspended at one of its awaits is resumed.  SpecFair follows the editor
\* from every initial state through every handler but the edits of the
\* texts, which neither start nor resume a save.
NextFair ==
    \/ handleFlip
    \/ handlePrev
    \/ handleNext
    \/ handleAddFlashcard
    \/ handleDeleteCard
    \/ deleteSettled
    \/ handleSubmit
    \/ deckSettled
    \/ cardSettled

SpecFair ==
    /\ Init
    /\ [][NextFair]_vars
    /\ WF_vars(deckSettled)
    /\ WF_vars(cardSettled)

\* ------------------------------------------------ overlapping handlers
\* The Delete and Save buttons stay enabled while a request is in flight
\* (lines 287-302), so a handler can be invoked while another is suspended.
\* SpecRace follows up to MaxRacing suspended handlers, from the editor of a
\* deck whose cards are all valid, without edits of the texts.
InitRace ==
    /\ Init
    /\ editDeck # NoDeck
    /\ hasTitle(deckTitle)
    /\ Len(flashcardsData) = MaxDeckCards
    /\ \A i \in 1..Len(flashcardsData) : isValid(Cards[i])

handleDeleteCardRacing == handleDeleteCardWithin(MaxRacing)

handleSubmitRacing == handleSubmitWithin(MaxRacing)

NextRace ==
    \/ handleFlip
    \/ handlePrev
    \/ handleNext
    \/ handleAddFlashcard
    \/ handleDeleteCardRacing
    \/ deleteSettled
    \/ handleSubmitRacing
    \/ deckSettled
    \/ cardSettled

SpecRace == InitRace /\ [][NextRace]_vars

\* ----------------------------------------------------------------- claims
\* A text that is empty once its whitespace is trimmed.
Blank(s) == \A i \in 1..Len(s) : s[i] = " "

\* A card whose front and back are both non-empty after trimming.
ValidCard(card) == ~Blank(card.front) /\ ~Blank(card.back)

IndexValid ==
    /\ Len(flashcardsData) > 0
    /\ currentCardIndex >= 0
    /\ currentCardIndex <= Len(flashcardsData) - 1

\* C1: in every reachable state the card list is non-empty and
\* 0 <= currentCardIndex <= len(cards) - 1.  An editDeck without cards
\* leaves the list empty.
C1_IndexAlwaysValid == IndexValid

\* C2: when the remote delete fails, by rejection or by a non-success
\* status, the step that delivers the failure leaves the editor as it was.
\* The handler does not look at the status of the response.
C2_FailedDeleteChangesNothing ==
    [][(lastOp'.op = "deleteSettled" /\ lastOp'.arg \in {"notok", "rejected"})
         => EditorView' = EditorView]_vars

\* C3: a save one of whose card requests failed, by rejection or by a
\* non-success status, ends with the failure alert, the editor as it was and
\* no call of onSubmit.  Promise.all fulfils on responses of any status.
C3_FailedCardFailsSave ==
    [][(/\ lastOp'.op = "cardSettled"
        /\ Len(saves') < Len(saves)
        /\ \/ lastOp'.arg \in {"notok", "rejected"}
           \/ \E k \in 1..Len(saves[lastOp'.sid].cards) :
                 saves[lastOp'.sid].cards[k] = "notok")
         => (alert' = SaveFailed /\ onSubmit' = 0 /\ EditorView' = EditorView)]_vars

\* The step is a response to a request of the save at lastOp'.sid.
Resumed(op, outcomes) == lastOp'.op = op /\ lastOp'.arg \in outcomes
TheSave == saves[lastOp'.sid]

IsCardUpsert(r) == r.api = "card" /\ r.method \in {"PUT", "POST"}

\* C4: card requests are sent only by the step in which the deck request of
\* their save got an ok response; a deck request that is rejected or gets a
\* non-success status ends the save with nothing sent, the editor as it was
\* and no call of onSubmit.
C4_CardsOnlyAfterDeckOk ==
    [][/\ (\E i \in 1..Len(sent') : IsCardUpsert(sent'[i]))
            => (Resumed("deckSettled", {"ok"}) /\ TheSave.phase = "deck")
       /\ Resumed("deckSettled", {"notok", "rejected"})
            => /\ sent' = <<>>
               /\ Len(saves') = Len(saves) - 1
               /\ EditorView' = EditorView
               /\ onSubmit' = 0]_vars

C4_Witness ==
    /\ lastOp.op = "deckSettled"
    /\ lastOp.arg = "notok"
    /\ alert = SaveFailed
    /\ saves = <<>>
    /\ \E i \in 1..Len(Cards) : ValidCard(Cards[i])

\* C5: handleSubmit on a title that is empty after trimming sends nothing,
\* leaves the editor and the pending handlers as they were and does not call
\* onSubmit.
C5_BlankTitleAbortsSave ==
    [][(lastOp'.op = "handleSubmit" /\ Blank(deckTitle))
         => /\ sent' = <<>>
            /\ EditorView' = EditorView
            /\ onSubmit' = 0
            /\ UNCHANGED <<saves, deletes>>]_vars

C5_Witness ==
    /\ lastOp.op = "handleSubmit"
    /\ deckTitle = <<" ">>
    /\ \E i \in 1..Len(Cards) : ValidCard(Cards[i])
    /\ alert = "Deck title is required!"
    /\ sent = <<>>

NoValidCard == \A i \in 1..Len(Cards) : ~ValidCard(Cards[i])

\* C6: handleSubmit when no card has both sides non-empty after trimming
\* sends nothing, not even the deck request, leaves the editor and the
\* pending handlers as they were and does not call onSubmit.
C6_NoValidCardAbortsSave ==
    [][(lastOp'.op = "handleSubmit" /\ NoValidCard)
         => /\ sent' = <<>>
            /\ EditorView' = EditorView
            /\ onSubmit' = 0
            /\ UNCHANGED <<saves, deletes>>]_vars

C6_Witness ==
    /\ lastOp.op = "handleSubmit"
    /\ ~Blank(deckTitle)
    /\ \E i \in 1..Len(Cards) : Cards[i].front = <<"Q">> /\ Cards[i].back = <<>>
    /\ NoValidCard
    /\ alert = "At least one flashcard is required!"
    /\ sent = <<>>

\* The step delivers the last outstanding card response of its save, and
\* every card request of that save got an ok response.
AllCardsSucceed ==
    /\ Resumed("cardSettled", {"ok"})
    /\ \A k \in 1..Len(TheSave.cards) : TheSave.cards[k] \in {"ok", "inflight"}
    /\ Cardinality({ k \in 1..Len(TheSave.cards) : TheSave.cards[k] = "inflight" }) = 1

\* C7: the step that completes a save all of whose requests succeeded leaves
\* title "", one blank card without id, index 0, not flipped, and calls
\* onSubmit once; onSubmit is called by no step but the one that ends a save,
\* and not by a validation abort or a step that ends a save in failure.
C7_SuccessResetsAndCallsOnce ==
    [][/\ AllCardsSucceed
            => /\ deckTitle' = <<>>
               /\ Cards' = <<BlankCard>>
               /\ currentCardIndex' = 0
               /\ isFlipped' = FALSE
               /\ onSubmit' = 1
               /\ Len(saves') = Len(saves) - 1
       /\ onSubmit' # 0
            => /\ onSubmit' = 1
               /\ lastOp'.op = "cardSettled"
               /\ Len(saves') = Len(saves) - 1
       /\ (\/ lastOp'.op = "handleSubmit" /\ (Blank(deckTitle) \/ NoValidCard)
           \/ Resumed("deckSettled", {"notok", "rejected"})
           \/ Resumed("cardSettled", {"rejected"}))
            => onSubmit' = 0]_vars

C7_Witness ==
    /\ lastOp.op = "cardSettled"
    /\ lastOp.arg = "ok"
    /\ onSubmit = 1
    /\ alert = "Deck and flashcards saved!"
    /\ deckTitle = <<>>
    /\ Cards = <<BlankCard>>
    /\ currentCardIndex = 0

\* The cards of the list that are valid, as references, in list order.
ValidRefs == SelectSeq(flashcardsData, LAMBDA o : ValidCard(heap[o]))

\* C8: a handleSubmit that passes validation sends exactly one deck request,
\* a PUT when editing and a POST when creating, and no other step sends one;
\* when its response is ok, exactly one request is sent for each card that
\* was valid when handleSubmit ran and for no other card: a PUT to its _id
\* for a card that has one, a POST for a card that has none.
C8_OneRequestPerValidCard ==
    [][/\ (lastOp'.op = "handleSubmit" /\ ~Blank(deckTitle) /\ ~NoValidCard)
            => /\ Len(sent') = 1
               /\ sent'[1].api = "deck"
               /\ sent'[1].method = IF editDeck = NoDeck THEN "POST" ELSE "PUT"
               /\ Len(saves') = Len(saves) + 1
               /\ saves'[Len(saves')].collected = ValidRefs
       /\ (\E i \in 1..Len(sent') : sent'[i].api = "deck")
            => lastOp'.op = "handleSubmit" /\ Len(sent') = 1
       /\ Resumed("deckSettled", {"ok"})
            => /\ Len(sent') = Len(TheSave.collected)
               /\ \A i \in 1..Len(sent') :
                    LET card == heap[TheSave.collected[i]] IN
                    /\ sent'[i].api = "card"
                    /\ card._id # NoId
                         => sent'[i].method = "PUT" /\ sent'[i].target = card._id
                    /\ card._id = NoId => sent'[i].method = "POST"]_vars

\* Edit mode, a valid card with an id and an added card with a blank back:
\* one PUT for the first, nothing for the second.
C8_Witness ==
    /\ lastOp.op = "deckSettled"
    /\ lastOp.arg = "ok"
    /\ editDeck # NoDeck
    /\ Len(Cards) = 2
    /\ Cards[1]._id # NoId /\ ValidCard(Cards[1])
    /\ Cards[2]._id = NoId /\ Cards[2].front = <<"Q">> /\ Blank(Cards[2].back)
    /\ Len(sent) = 1
    /\ sent[1].method = "PUT"
    /\ sent[1].target = Cards[1]._id

DeckAddressedBy(id) == CHOOSE k \in DeckKeys : k._id = id

\* C9: a card-create request carries the deck_id of the deck its save
\* upserted: the deck_id of the deck-create response in create mode, the
\* deck_id of the deck the PUT was addressed to in edit mode.
C9_CardCreateCarriesDeckId ==
    [][/\ (lastOp'.op = "handleSubmit" /\ sent' # <<>> /\ editDeck # NoDeck)
            => /\ sent'[1].target = editDeck._id
               /\ saves'[Len(saves')].editDeck = editDeck
       /\ (lastOp'.op = "handleSubmit" /\ sent' # <<>> /\ editDeck = NoDeck)
            => saves'[Len(saves')].editDeck = NoDeck
       /\ \A i \in 1..Len(sent') :
            (sent'[i].api = "card" /\ sent'[i].method = "POST")
              => /\ Resumed("deckSettled", {"ok"})
                 /\ IF TheSave.editDeck = NoDeck
                    THEN /\ lastOp'.data \in NewDeckIds
                         /\ sent'[i].deck_id = lastOp'.data
                    ELSE sent'[i].deck_id
                           = DeckAddressedBy(TheSave.editDeck._id).deck_id]_vars

C9_Witness ==
    /\ lastOp.op = "deckSettled"
    /\ lastOp.data = "deckN"
    /\ editDeck = NoDeck
    /\ Len(sent) = 1
    /\ sent[1].method = "POST"
    /\ sent[1].deck_id = "deckN"

\* C10: handleDeleteCard on a card without an id, or answered with a
\* declined confirmation, sends nothing and leaves the editor and the
\* pending handlers as they were.
C10_DeleteNotConfirmedChangesNothing ==
    [][(lastOp'.op = "handleDeleteCard"
          /\ (currentCard._id = NoId \/ lastOp'.arg = "declined"))
         => /\ sent' = <<>>
            /\ EditorView' = EditorView
            /\ UNCHANGED <<deletes, saves>>]_vars

C10_Witness ==
    /\ lastOp.op = "handleDeleteCard"
    /\ lastOp.arg = "declined"
    /\ currentCard._id # NoId
    /\ deletes = <<>>
    /\ sent = <<>>

\* The delete whose response the step delivers, as handleDeleteCard left it.
TheDelete == deletes[lastOp'.sid]

CardIdsShown == [i \in 1..Len(Cards) |-> Cards[i]._id]

\* C13: after initialization, after a handlePrev or handleNext that moved
\* the index, after handleAddFlashcard, after an ok delete response and after
\* the reset of a successful save, isFlipped is false; isFlipped is true
\* after a step only if the step was handleFlip on an unflipped card, or if
\* it was true before and the step left the index and the cards of the list
\* in place.
C13_FlippedOnlyByFlip ==
    /\ (lastOp.op = "useEffect" => ~isFlipped)
    /\ [][/\ (lastOp'.op \in {"handlePrev", "handleNext"}
              /\ currentCardIndex' # currentCardIndex) => ~isFlipped'
          /\ lastOp'.op = "handleAddFlashcard" => ~isFlipped'
          /\ Resumed("deleteSettled", {"ok"}) => ~isFlipped'
          /\ (lastOp'.op = "cardSettled" /\ onSubmit' = 1) => ~isFlipped'
          /\ isFlipped'
               => \/ lastOp'.op = "handleFlip" /\ ~isFlipped
                  \/ /\ isFlipped
                     /\ lastOp'.op # "handleFlip"
                     /\ currentCardIndex' = currentCardIndex
                     /\ CardIdsShown' = CardIdsShown]_vars

\* handlePrev moved from the second card to the first.
C13_Witness ==
    /\ lastOp.op = "handlePrev"
    /\ Len(Cards) = 2
    /\ currentCardIndex = 0
    /\ ~isFlipped
    /\ Cards[1].front = <<"Q">>

\* C14: handleAddFlashcard appends exactly one blank card without id at the
\* end of the list, leaves the cards before it and the title as they were,
\* and leaves the index at the last card and isFlipped false.
C14_AddAppendsBlankCard ==
    [][lastOp'.op = "handleAddFlashcard"
         => /\ Cards' = Append(Cards, BlankCard)
            /\ deckTitle' = deckTitle
            /\ currentCardIndex' = Len(Cards') - 1
            /\ isFlipped' = FALSE]_vars

C14_Witness ==
    /\ lastOp.op = "handleAddFlashcard"
    /\ Len(Cards) = 2
    /\ Cards[1]._id # NoId
    /\ Cards[2] = BlankCard
    /\ currentCardIndex = 1
    /\ ~Blank(deckTitle)

\* C15: handlePrev and handleNext leave the index within 0..len(cards)-1;
\* handlePrev at index 0 and handleNext at the last index change nothing, not
\* even isFlipped; otherwise each moves the index by exactly one and leaves
\* the list and the title as they were.
C15_PrevNextStayInRange ==
    [][/\ lastOp'.op = "handlePrev"
            => IF currentCardIndex = 0
               THEN EditorView' = EditorView
               ELSE /\ currentCardIndex' = currentCardIndex - 1
                    /\ Cards' = Cards
                    /\ deckTitle' = deckTitle
       /\ lastOp'.op = "handleNext"
            => IF currentCardIndex = Len(Cards) - 1
               THEN EditorView' = EditorView
               ELSE /\ currentCardIndex' = currentCardIndex + 1
                    /\ Cards' = Cards
                    /\ deckTitle' = deckTitle
       /\ lastOp'.op \in {"handlePrev", "handleNext"} => IndexValid']_vars

\* handleNext on the last of two cards, flipped: nothing changed.
C15_Witness ==
    /\ lastOp.op = "handleNext"
    /\ Len(Cards) = 2
    /\ currentCardIndex = 1
    /\ isFlipped

\* C17: a card that is in the list when an ok delete response arrives, and
\* was not in the list when that handleDeleteCard was invoked (a card
\* appended in between), is in the list after the step.  The handler
\* stores the list of its own render with one card removed.
C17_AddedCardSurvivesDelete ==
    [][Resumed("deleteSettled", {"ok"})
         => \A i \in 1..Len(flashcardsData) :
               flashcardsData[i] \notin Range(TheDelete.cards)
                 => \E j \in 1..Len(Cards') : Cards'[j] = Cards[i]]_vars

\* C18: every card request carries a front and a back that are non-empty
\* after trimming.  The requests are built, when the deck response arrives,
\* from the card objects as they are then.
C18_CardRequestsCarryValidCards ==
    [][\A i \in 1..Len(sent') :
          IsCardUpsert(sent'[i]) => ValidCard(sent'[i])]_vars

\* C12: at most one card delete request is in flight at any time.  The
\* Delete button is rendered, enabled, for every card that has an id while a
\* delete is in flight.
C12_OneDeleteInFlight == Len(deletes) <= 1

\* C16: when no delete is in flight, the list holds no card whose id the
\* server has deleted (a delete request for it got an ok response).
C16_DeletedCardStaysGone ==
    deletes = <<>> => \A i \in 1..Len(Cards) : Cards[i]._id \notin deleted

\* C19: at most one save is in progress at a time: a handleSubmit invoked
\* while a save awaits a response sends no deck request and starts no save.
C19_OneSaveInProgress ==
    [][(lastOp'.op = "handleSubmit" /\ saves # <<>>)
         => (sent' = <<>> /\ Len(saves') = Len(saves))]_vars

ValidationAlerts == { "Deck title is required!", "At least one flashcard is required!" }
SaveAlerts == { SaveFailed, SaveSucceeded(NoDeck), SaveSucceeded(editDeck) }

=============================================================================
